---- MODULE Spec2Model ----
(***************************************************************************)
(* The two tutorial scripts src/pystan_tutorial_1.py ("draft") and         *)
(* src/2019-01-14/pystan_tutorial_1.py ("dated"), run statement by         *)
(* statement from the top.  Line numbers in the comments are those of the  *)
(* draft; the dated script is the same program up to its last statement    *)
(* (the credible-interval chart) and stops there.                          *)
(*                                                                         *)
(* Numbers.  The sampler's draws are integers here.  A cell of a summary   *)
(* table is either NaN or a number kept exactly as a multiple of           *)
(* 1/LevelDenominator: Num(v) stands for the real v / LevelDenominator.    *)
(* A quantile level is kept as its numerator over LevelDenominator, so     *)
(* q = 0.025 is level 1, q = 0.5 is level 20 and q = 0.975 is level 39.    *)
(***************************************************************************)
EXTENDS Integers, Sequences, FiniteSets, TLC

VARIABLES
    script,        \* which of the two files is run
    pc,            \* the statement about to be executed
    bound,         \* the names bound in the module namespace
    heap,          \* the DataFrame objects of draws, by object reference
    stan_results,  \* reference held by the name stan_results (0: none)
    pred_df_stan,  \* reference held by the name pred_df_stan (0: none)
    it,            \* how many values the for loop's range iterator has given
    x,             \* the query point held by the loop variable x (-1: none)
    summary_stan,  \* the Summary Table
    rendered,      \* what the credible-interval chart handed to plt.errorbar
    err,           \* the exception that ended the run, if any
    granularity,   \* how the loop bodies are scheduled (SpecPar only)
    bpc            \* each loop body's own position (SpecPar only)

vars == <<script, pc, bound, heap, stan_results, pred_df_stan, it, x,
          summary_stan, rendered, err, granularity, bpc>>

-----------------------------------------------------------------------------
(* Bounds of the model: the sampler's output.                              *)

MaxDraws == 3
MaxParDraws == 1
MaxWorkers == 2

Alphas == {0, 2, 4}
Betas == {-1, 1}
Sigmas == {2}
LogPs == {0}

Draws == [alpha : Alphas, beta : Betas, sigma : Sigmas, lp__ : LogPs]

RECURSIVE SeqsUpTo(_, _)
SeqsUpTo(S, n) ==
    IF n = 0 THEN {<< >>}
    ELSE LET shorter == SeqsUpTo(S, n - 1)
         IN  shorter \cup {Append(s, e) : s \in {t \in shorter : Len(t) = n - 1}, e \in S}

DrawSets == SeqsUpTo(Draws, MaxDraws)
ParDrawSets == SeqsUpTo(Draws, MaxParDraws)

-----------------------------------------------------------------------------
(* Cells and series.                                                       *)

LevelDenominator == 40
LowerLevelQuartile == LevelDenominator \div 4
LowerLevel == 1
MedianLevel == 20
UpperLevel == 39

NaN == [isnan |-> TRUE, val |-> 0]
Num(v) == [isnan |-> FALSE, val |-> v]

\* range(a, b) as the sequence of its values
RangeSeq(a, b) == [i \in 1 .. (b - a) |-> a + i - 1]

SeqToSet(s) == {s[i] : i \in DOMAIN s}

RECURSIVE Insert(_, _)
Insert(v, s) ==
    IF s = << >> THEN <<v>>
    ELSE IF v <= Head(s) THEN <<v>> \o s
    ELSE <<Head(s)>> \o Insert(v, Tail(s))

SortValuesUnsorted(s) == s

RECURSIVE SortValues(_)
SortValues(s) ==
    IF s = << >> THEN << >> ELSE Insert(Head(s), SortValues(Tail(s)))

QuantileZeroOnEmpty(values, level) ==
    IF values = << >> THEN Num(0)
    ELSE LET a   == SortValues(values)
             n   == Len(a)
             pos == level * (n - 1)
             lo  == pos \div LevelDenominator
             fr  == pos % LevelDenominator
             hi  == IF lo + 1 < n THEN lo + 1 ELSE lo
         IN  Num(LevelDenominator * a[lo + 1] + fr * (a[hi + 1] - a[lo + 1]))

\* Series.quantile(q) with the default interpolation="linear": NaN for an
\* empty series, else the value at position q * (n - 1) of the sorted values,
\* interpolated between the two neighbouring order statistics.
Quantile(values, level) ==
    IF values = << >> THEN NaN
    ELSE LET a   == SortValues(values)
             n   == Len(a)
             pos == level * (n - 1)
             lo  == pos \div LevelDenominator
             fr  == pos % LevelDenominator
             hi  == IF lo + 1 < n THEN lo + 1 ELSE lo
         IN  Num(LevelDenominator * a[lo + 1] + fr * (a[hi + 1] - a[lo + 1]))

\* element-wise Series subtraction; NaN propagates
Minus(a, b) ==
    IF a.isnan \/ b.isnan THEN NaN ELSE Num(a.val - b.val)

-----------------------------------------------------------------------------
(* DataFrames of draws: a function from column name to the column's values.*)

FrameOf(draws) ==
    [c \in {"alpha", "beta", "sigma", "lp__"} |->
        [i \in 1 .. Len(draws) |->
            CASE c = "alpha" -> draws[i].alpha
              [] c = "beta"  -> draws[i].beta
              [] c = "sigma" -> draws[i].sigma
              [] OTHER       -> draws[i].lp__]]

NRows(f) == Len(f["alpha"])

\* frame[name] = values, adding the column or overwriting it
SetColumn(f, name, values) ==
    [c \in DOMAIN f \cup {name} |-> IF c = name THEN values ELSE f[c]]

\* DataFrame.copy(): a new object
DataFrameCopyAlias(ref) == ref

DataFrameCopy(ref) == ref + 1

\* f"y_{x}"
YName == <<"y_0", "y_1", "y_2", "y_3", "y_4", "y_5">>
YCol(q) == YName[q + 1]

-----------------------------------------------------------------------------
(* The Summary Table: ordered index, ordered columns, cells.               *)

NewTable(columns, index) ==
    [index   |-> index,
     columns |-> columns,
     cell    |-> [r \in SeqToSet(index) |-> [c \in SeqToSet(columns) |-> NaN]]]

HasColumn(t, c) == c \in SeqToSet(t.columns)
HasRow(t, r) == r \in SeqToSet(t.index)

Cell(t, r, c) == t.cell[r][c]

\* t.loc[r, c] = v: sets the cell, enlarging the table by the row or the
\* column when the label is new (the other cells of it are NaN)
LocSet(t, r, c, v) ==
    LET index   == IF HasRow(t, r) THEN t.index ELSE Append(t.index, r)
        columns == IF HasColumn(t, c) THEN t.columns ELSE Append(t.columns, c)
    IN  [index   |-> index,
         columns |-> columns,
         cell    |-> [rr \in SeqToSet(index) |-> [cc \in SeqToSet(columns) |->
                        IF rr = r /\ cc = c THEN v
                        ELSE IF HasRow(t, rr) /\ HasColumn(t, cc) THEN t.cell[rr][cc]
                        ELSE NaN]]]

\* t[c] = series (a column assignment of a series on t's own index)
SetTableColumn(t, c, series) ==
    LET columns == IF HasColumn(t, c) THEN t.columns ELSE Append(t.columns, c)
    IN  [index   |-> t.index,
         columns |-> columns,
         cell    |-> [rr \in SeqToSet(t.index) |-> [cc \in SeqToSet(columns) |->
                        IF cc = c THEN series[rr] ELSE t.cell[rr][cc]]]]

DeclaredColumns == <<"y_025", "y_50", "y_975">>
SummaryIndex == RangeSeq(0, 6)
LoopRangeShort == RangeSeq(0, 5)

LoopRange == RangeSeq(0, 6)

-----------------------------------------------------------------------------
(* The statements of the loop body, as transformers of the objects they    *)
(* touch.                                                                  *)

\* pred_df_stan["x"] = x
StmtSetXOnce(f, q) ==
    IF "x" \in DOMAIN f THEN f ELSE SetColumn(f, "x", [i \in 1 .. NRows(f) |-> q])

StmtSetX(f, q) == SetColumn(f, "x", [i \in 1 .. NRows(f) |-> q])

\* pred_df_stan[f"y_{x}"] = pred_df_stan["alpha"] + pred_df_stan["beta"] * pred_df_stan["x"]
StmtSetYSigma(f, q) ==
    SetColumn(f, YCol(q), [i \in 1 .. NRows(f) |-> f["alpha"][i] + f["sigma"][i] * f["x"][i]])

StmtSetY(f, q) ==
    SetColumn(f, YCol(q), [i \in 1 .. NRows(f) |-> f["alpha"][i] + f["beta"][i] * f["x"][i]])

\* summary_stan.loc[x, col] = pred_df_stan[f"y_{x}"].quantile(q=level)
StmtQuantile(t, f, q, col, level) ==
    LocSet(t, q, col, Quantile(f[YCol(q)], level))

-----------------------------------------------------------------------------
Imports == {"np", "pd", "ps", "smf", "plt"}

NoError == [kind |-> "none", line |-> 0]

Init ==
    /\ script \in {"draft", "dated"}
    /\ pc = "dataset"
    /\ bound = Imports
    /\ heap = << >>
    /\ stan_results = 0
    /\ pred_df_stan = 0
    /\ it = 0
    /\ x = -1
    /\ summary_stan = NewTable(<< >>, << >>)
    /\ rendered = << >>
    /\ err = NoError
    /\ granularity = "sequential"
    /\ bpc = [q \in SeqToSet(LoopRange) |-> "idle"]

\* lines 8-11: df = pd.DataFrame(...); df.plot(...)
Dataset ==
    /\ pc = "dataset"
    /\ pc' = "ols_fit"
    /\ bound' = bound \cup {"df"}
    /\ UNCHANGED <<script, heap, stan_results, pred_df_stan, it, x, summary_stan,
                   rendered, err, granularity, bpc>>

\* lines 15-17: the names the OLS fit binds
OlsBinds == {"ols_model", "ols_fit"}

OlsFit ==
    /\ pc = "ols_fit"
    /\ pc' = "ols_chart"
    /\ bound' = bound \cup OlsBinds
    /\ UNCHANGED <<script, heap, stan_results, pred_df_stan, it, x, summary_stan,
                   rendered, err, granularity, bpc>>

\* lines 21-22: the error-bar offsets of the OLS chart
OlsLowerDiff(mean, mean_ci_lower) == Minus(mean, mean_ci_lower)
OlsUpperDiff(mean, mean_ci_upper) == Minus(mean_ci_upper, mean)

\* lines 20-30: the OLS confidence-interval chart (uses ols_fit)
OlsChart ==
    /\ pc = "ols_chart"
    /\ IF "ols_fit" \in bound
       THEN /\ pc' = "stan_fit"
            /\ bound' = bound \cup {"pred_df_ols"}
            /\ err' = err
       ELSE /\ pc' = "error"
            /\ bound' = bound
            /\ err' = [kind |-> "NameError", line |-> 20]
    /\ UNCHANGED <<script, heap, stan_results, pred_df_stan, it, x, summary_stan,
                   rendered, granularity, bpc>>

\* lines 33-39: the sampler returns its draws; stan_results is their frame
StanFit ==
    /\ pc = "stan_fit"
    /\ \E draws \in DrawSets :
          /\ heap' = (1 :> FrameOf(draws))
          /\ stan_results' = 1
    /\ pc' = "all_fits"
    /\ bound' = bound \cup {"data_dict", "stan_model", "stan_fit", "stan_results"}
    /\ UNCHANGED <<script, pred_df_stan, it, x, summary_stan, rendered, err,
                   granularity, bpc>>

\* lines 43-54: one line per draw on the chart; reads stan_results only.
\* The loop's names are bound only if it runs at least once; x is an array.
AllFits ==
    /\ pc = "all_fits"
    /\ pc' = "copy"
    /\ bound' = IF NRows(heap[stan_results]) > 0
                THEN bound \cup {"row", "fit_line", "x", "y"}
                ELSE bound
    /\ x' = -1
    /\ UNCHANGED <<script, heap, stan_results, pred_df_stan, it, summary_stan,
                   rendered, err, granularity, bpc>>

\* lines 57-58: pred_df_stan = stan_results.copy(); summary_stan = DataFrame(...)
Copy ==
    /\ pc = "copy"
    /\ LET r == DataFrameCopy(stan_results)
       IN  /\ pred_df_stan' = r
           /\ heap' = [o \in DOMAIN heap \cup {r} |-> heap[stan_results]]
    /\ summary_stan' = NewTable(DeclaredColumns, SummaryIndex)
    /\ bound' = bound \cup {"pred_df_stan", "summary_stan"}
    /\ pc' = "for"
    /\ it' = 0
    /\ UNCHANGED <<script, stan_results, x, rendered, err, granularity, bpc>>

\* line 59: for x in range(0, 6)
ForNext ==
    /\ pc = "for"
    /\ IF it < Len(LoopRange)
       THEN /\ x' = LoopRange[it + 1]
            /\ it' = it + 1
            /\ bound' = bound \cup {"x"}
            /\ pc' = "setx"
       ELSE /\ pc' = "diffs"
            /\ UNCHANGED <<x, it, bound>>
    /\ UNCHANGED <<script, heap, stan_results, pred_df_stan, summary_stan,
                   rendered, err, granularity, bpc>>

\* line 60
SetX ==
    /\ pc = "setx"
    /\ heap' = [heap EXCEPT ![pred_df_stan] = StmtSetX(@, x)]
    /\ pc' = "sety"
    /\ UNCHANGED <<script, bound, stan_results, pred_df_stan, it, x, summary_stan,
                   rendered, err, granularity, bpc>>

\* line 61
SetY ==
    /\ pc = "sety"
    /\ heap' = [heap EXCEPT ![pred_df_stan] = StmtSetY(@, x)]
    /\ pc' = "q025"
    /\ UNCHANGED <<script, bound, stan_results, pred_df_stan, it, x, summary_stan,
                   rendered, err, granularity, bpc>>

\* line 62
Q025 ==
    /\ pc = "q025"
    /\ summary_stan' = StmtQuantile(summary_stan, heap[pred_df_stan], x, "y_025", LowerLevel)
    /\ pc' = "q500"
    /\ UNCHANGED <<script, bound, heap, stan_results, pred_df_stan, it, x,
                   rendered, err, granularity, bpc>>

\* line 63
Q500 ==
    /\ pc = "q500"
    /\ summary_stan' = StmtQuantile(summary_stan, heap[pred_df_stan], x, "y_500", MedianLevel)
    /\ pc' = "q975"
    /\ UNCHANGED <<script, bound, heap, stan_results, pred_df_stan, it, x,
                   rendered, err, granularity, bpc>>

\* line 64
Q975 ==
    /\ pc = "q975"
    /\ summary_stan' = StmtQuantile(summary_stan, heap[pred_df_stan], x, "y_975", UpperLevel)
    /\ pc' = "for"
    /\ UNCHANGED <<script, bound, heap, stan_results, pred_df_stan, it, x,
                   rendered, err, granularity, bpc>>

\* lines 67-68: the error-bar offsets of the credible-interval chart
StanLowerDiff(y_025, y_500) == Minus(y_025, y_500)
StanUpperDiff(y_500, y_975) == Minus(y_500, y_975)

\* lines 67-68: two column assignments; a column that does not exist is a KeyError
Diffs ==
    /\ pc = "diffs"
    /\ IF HasColumn(summary_stan, "y_025") /\ HasColumn(summary_stan, "y_500")
          /\ HasColumn(summary_stan, "y_975")
       THEN LET t     == summary_stan
                rows  == SeqToSet(t.index)
                lower == [r \in rows |-> StanLowerDiff(Cell(t, r, "y_025"), Cell(t, r, "y_500"))]
                upper == [r \in rows |-> StanUpperDiff(Cell(t, r, "y_500"), Cell(t, r, "y_975"))]
            IN  /\ summary_stan' = SetTableColumn(SetTableColumn(t, "ci_lower_diff", lower),
                                                  "ci_upper_diff", upper)
                /\ pc' = "errorbar"
                /\ err' = err
       ELSE /\ pc' = "error"
            /\ err' = [kind |-> "KeyError", line |-> 67]
            /\ summary_stan' = summary_stan
    /\ UNCHANGED <<script, bound, heap, stan_results, pred_df_stan, it, x,
                   rendered, granularity, bpc>>

\* line 69: the arguments of plt.errorbar(index, y_500, yerr=[lower; upper])
ErrorbarArgs(t) ==
    [x    |-> t.index,
     y    |-> [i \in DOMAIN t.index |-> Cell(t, t.index[i], "y_500")],
     yerr |-> << [i \in DOMAIN t.index |-> Cell(t, t.index[i], "ci_lower_diff")],
                 [i \in DOMAIN t.index |-> Cell(t, t.index[i], "ci_upper_diff")] >>]

HasNegative(yerr) ==
    \E k \in DOMAIN yerr : \E i \in DOMAIN yerr[k] :
        ~yerr[k][i].isnan /\ yerr[k][i].val < 0

\* lines 69-76: the chart is drawn.  The dated script ends here.
ErrorbarDraw ==
    /\ pc = "errorbar"
    /\ rendered' = ErrorbarArgs(summary_stan)
    /\ pc' = IF script = "draft" THEN "second_way" ELSE "end"
    /\ UNCHANGED <<script, bound, heap, stan_results, pred_df_stan, it, x,
                   summary_stan, err, granularity, bpc>>

\* line 69: a matplotlib that validates yerr raises ValueError on a negative
\* offset; one that does not draws the bar.  The scripts pin no version.
ErrorbarReject ==
    /\ pc = "errorbar"
    /\ HasNegative(ErrorbarArgs(summary_stan).yerr)
    /\ rendered' = ErrorbarArgs(summary_stan)
    /\ pc' = "error"
    /\ err' = [kind |-> "ValueError", line |-> 69]
    /\ UNCHANGED <<script, bound, heap, stan_results, pred_df_stan, it, x,
                   summary_stan, granularity, bpc>>

-----------------------------------------------------------------------------
(* The rest of the draft, lines 90-137.                                    *)

\* line 91: stan_results.quantile(q) is a series indexed by stan_results'
\* columns, so those are the rows of stan_summary
StanSummary(f) ==
    LET index == <<"alpha", "beta", "sigma", "lp__">>
        q95   == [c \in SeqToSet(index) |-> Quantile(f[c], 38)]
        q50   == [c \in SeqToSet(index) |-> Quantile(f[c], 20)]
        q05   == [c \in SeqToSet(index) |-> Quantile(f[c], 2)]
    IN  SetTableColumn(SetTableColumn(SetTableColumn(
            NewTable(<< >>, index), "0.95", q95), "0.50", q50), "0.05", q05)

\* the statements by first line: the names each reads and the names it binds
NoTail == << >>

TailStatements == <<
    [line |-> 90,  uses |-> {"pd"},                          binds |-> {"stan_summary"}],
    [line |-> 91,  uses |-> {"stan_summary", "stan_results"}, binds |-> {}],
    [line |-> 92,  uses |-> {"pd"},                          binds |-> {"stan_pred_df"}],
    [line |-> 93,  uses |-> {"stan_pred_df", "stan_summary"}, binds |-> {}],
    [line |-> 97,  uses |-> {"stan_results", "plt"},         binds |-> {}],
    [line |-> 109, uses |-> {"ols_results"},                 binds |-> {"pred_df"}],
    [line |-> 110, uses |-> {"pred_df", "plt", "df"},        binds |-> {}],
    [line |-> 129, uses |-> {"np", "ols_results"},           binds |-> {"fit_line"}],
    [line |-> 130, uses |-> {"np", "fit_line"},              binds |-> {"x", "y"}],
    [line |-> 132, uses |-> {"plt", "df", "x", "y"},         binds |-> {}] >>

\* Runs the statements from the k-th on: a name that is not bound is a
\* NameError; stan_summary.loc["0.95"] (line 93) is a KeyError unless "0.95"
\* is a row label of stan_summary.
RECURSIVE RunFrom(_, _, _)
RunFrom(k, names, f) ==
    IF k > Len(TailStatements)
    THEN [pc |-> "end", err |-> NoError, bound |-> names]
    ELSE LET s == TailStatements[k]
         IN  IF ~(s.uses \subseteq names)
             THEN [pc |-> "error", err |-> [kind |-> "NameError", line |-> s.line],
                   bound |-> names]
             ELSE IF s.line = 93 /\ ~HasRow(StanSummary(f), "0.95")
             THEN [pc |-> "error", err |-> [kind |-> "KeyError", line |-> s.line],
                   bound |-> names]
             ELSE RunFrom(k + 1, names \cup s.binds, f)

DraftTail ==
    /\ pc = "second_way"
    /\ LET r == RunFrom(1, bound, heap[stan_results])
       IN  /\ pc' = r.pc
           /\ err' = r.err
           /\ bound' = r.bound
    /\ UNCHANGED <<script, heap, stan_results, pred_df_stan, it, x, summary_stan,
                   rendered, granularity, bpc>>

Next ==
    \/ Dataset
    \/ OlsFit
    \/ OlsChart
    \/ StanFit
    \/ AllFits
    \/ Copy
    \/ ForNext
    \/ SetX
    \/ SetY
    \/ Q025
    \/ Q500
    \/ Q975
    \/ Diffs
    \/ ErrorbarDraw
    \/ ErrorbarReject
    \/ DraftTail

Spec == Init /\ [][Next]_vars

-----------------------------------------------------------------------------
(***************************************************************************)
(* The loop of lines 59-64 with its bodies run as jobs, one per query      *)
(* point, each with its own x; the statements are those of the sequential  *)
(* loop.  With granularity "any_order" the bodies run one at a time, each  *)
(* to its end, in any order.  With "interleaved" a pool of MaxWorkers      *)
(* workers takes the query points in the order of range(0, 6) and the      *)
(* statements of the bodies in progress interleave.                        *)
(***************************************************************************)

InitPar ==
    /\ script = "dated"
    /\ pc = "dataset"
    /\ bound = Imports
    /\ heap = << >>
    /\ stan_results = 0
    /\ pred_df_stan = 0
    /\ it = 0
    /\ x = -1
    /\ summary_stan = NewTable(<< >>, << >>)
    /\ rendered = << >>
    /\ err = NoError
    /\ granularity \in {"any_order", "interleaved"}
    /\ bpc = [q \in SeqToSet(LoopRange) |-> "idle"]

\* lines 33-39, as StanFit, with the sampler's output bounded by MaxParDraws
ParStanFit ==
    /\ pc = "stan_fit"
    /\ \E draws \in ParDrawSets :
          /\ heap' = (1 :> FrameOf(draws))
          /\ stan_results' = 1
    /\ pc' = "all_fits"
    /\ bound' = bound \cup {"data_dict", "stan_model", "stan_fit", "stan_results"}
    /\ UNCHANGED <<script, pred_df_stan, it, x, summary_stan, rendered, err,
                   granularity, bpc>>

InProgress == {q \in DOMAIN bpc : bpc[q] \notin {"idle", "done"}}

\* whether the body of query point q may start now
MayStart(q) ==
    /\ bpc[q] = "idle"
    /\ IF granularity = "any_order"
       THEN InProgress = {}
       ELSE /\ Cardinality(InProgress) < MaxWorkers
            /\ \A i, j \in DOMAIN LoopRange :
                  (LoopRange[j] = q /\ i < j) => bpc[LoopRange[i]] # "idle"

\* line 60
ParSetX(q) ==
    /\ pc = "for"
    /\ MayStart(q)
    /\ heap' = [heap EXCEPT ![pred_df_stan] = StmtSetX(@, q)]
    /\ bpc' = [bpc EXCEPT ![q] = "sety"]
    /\ UNCHANGED <<script, pc, bound, stan_results, pred_df_stan, it, x, summary_stan,
                   rendered, err, granularity>>

\* line 61
ParSetY(q) ==
    /\ pc = "for"
    /\ bpc[q] = "sety"
    /\ heap' = [heap EXCEPT ![pred_df_stan] = StmtSetY(@, q)]
    /\ bpc' = [bpc EXCEPT ![q] = "summarise"]
    /\ UNCHANGED <<script, pc, bound, stan_results, pred_df_stan, it, x, summary_stan,
                   rendered, err, granularity>>

\* lines 62-64: three writes to the body's own row q of the table, each read
\* from the body's own column y_q, which no other body reads or writes
ParSummarise(q) ==
    /\ pc = "for"
    /\ bpc[q] = "summarise"
    /\ LET f  == heap[pred_df_stan]
           t1 == StmtQuantile(summary_stan, f, q, "y_025", LowerLevel)
           t2 == StmtQuantile(t1, f, q, "y_500", MedianLevel)
       IN  summary_stan' = StmtQuantile(t2, f, q, "y_975", UpperLevel)
    /\ bpc' = [bpc EXCEPT ![q] = "done"]
    /\ UNCHANGED <<script, pc, bound, heap, stan_results, pred_df_stan, it, x,
                   rendered, err, granularity>>

\* every body has ended
ParJoin ==
    /\ pc = "for"
    /\ \A q \in DOMAIN bpc : bpc[q] = "done"
    /\ pc' = "joined"
    /\ UNCHANGED <<script, bound, heap, stan_results, pred_df_stan, it, x, summary_stan,
                   rendered, err, granularity, bpc>>

NextPar ==
    \/ Dataset
    \/ OlsFit
    \/ OlsChart
    \/ ParStanFit
    \/ AllFits
    \/ Copy
    \/ \E q \in SeqToSet(LoopRange) : ParSetX(q)
    \/ \E q \in SeqToSet(LoopRange) : ParSetY(q)
    \/ \E q \in SeqToSet(LoopRange) : ParSummarise(q)
    \/ ParJoin

SpecPar == InitPar /\ [][NextPar]_vars

\* the table the sequential loop builds from the frame and table it starts with
RECURSIVE SeqRun(_, _, _)
SeqRun(k, f, t) ==
    IF k > Len(LoopRange) THEN t
    ELSE LET q  == LoopRange[k]
             f1 == StmtSetX(f, q)
             f2 == StmtSetY(f1, q)
             t1 == StmtQuantile(t, f2, q, "y_025", LowerLevel)
             t2 == StmtQuantile(t1, f2, q, "y_500", MedianLevel)
             t3 == StmtQuantile(t2, f2, q, "y_975", UpperLevel)
         IN  SeqRun(k + 1, f2, t3)

SequentialSummary == SeqRun(1, heap[stan_results], NewTable(DeclaredColumns, SummaryIndex))

-----------------------------------------------------------------------------
(* What the claims speak of.                                               *)

InBody == pc \in {"setx", "sety", "q025", "q500", "q975"}

\* the loop has ended (normally: the loop itself raises nothing)
AfterLoop ==
    \/ pc \in {"diffs", "errorbar", "second_way", "end"}
    \/ pc = "error" /\ err.line >= 67

Sampled == stan_results # 0
NDraws == NRows(heap[stan_results])

\* the query points whose loop body has run to its end
DoneRows ==
    IF InBody \/ pc = "for" \/ AfterLoop
    THEN {LoopRange[i] : i \in 1 .. (IF InBody THEN it - 1 ELSE it)}
    ELSE {}

Lower(q) == Cell(summary_stan, q, "y_025")
Median(q) == Cell(summary_stan, q, "y_500")
Upper(q) == Cell(summary_stan, q, "y_975")

\* the predictive samples of query point q, straight from the sampler's draws
Samples(q) ==
    LET f == heap[stan_results]
    IN  [d \in 1 .. NDraws |-> f["alpha"][d] + f["beta"][d] * q]

\* the k-th smallest value (k from 0) of a non-empty sample, by rank
OrderStat(s, k) ==
    CHOOSE v \in SeqToSet(s) :
        /\ Cardinality({i \in DOMAIN s : s[i] < v}) <= k
        /\ k < Cardinality({i \in DOMAIN s : s[i] <= v})

\* the empirical quantile of a non-empty sample at level/LevelDenominator:
\* position p * (n - 1), linear interpolation between the order statistics
RefQuantile(s, level) ==
    LET n   == Len(s)
        pos == level * (n - 1)
        lo  == pos \div LevelDenominator
        fr  == pos % LevelDenominator
        hi  == IF fr = 0 THEN lo ELSE lo + 1
    IN  Num((LevelDenominator - fr) * OrderStat(s, lo) + fr * OrderStat(s, hi))

\* C1: for a non-empty Draw Set, every summarised query point has
\* lower <= median <= upper (all three being numbers).
C1_QuantilesOrdered ==
    (Sampled /\ NDraws > 0) =>
        \A q \in DoneRows :
            /\ ~Lower(q).isnan /\ ~Median(q).isnan /\ ~Upper(q).isnan
            /\ Lower(q).val <= Median(q).val
            /\ Median(q).val <= Upper(q).val

C1_Witness ==
    /\ AfterLoop /\ NDraws > 1
    /\ DoneRows = SeqToSet(LoopRange)
    /\ \E q \in DoneRows : Lower(q).val < Median(q).val /\ Median(q).val < Upper(q).val

\* C2: the three values written for a query point are the empirical quantiles
\* at 0.025, 0.5 and 0.975 of the samples intercept + slope * x, one per draw.
C2_QuantilesOfPredictiveSamples ==
    (Sampled /\ NDraws > 0) =>
        \A q \in DoneRows :
            /\ Lower(q) = RefQuantile(Samples(q), 1)
            /\ Median(q) = RefQuantile(Samples(q), 20)
            /\ Upper(q) = RefQuantile(Samples(q), 39)

\* a tie among the samples, and a position that needs interpolation
C2_Witness ==
    /\ AfterLoop /\ NDraws = 3
    /\ DoneRows = SeqToSet(LoopRange)
    /\ \E q \in DoneRows :
          /\ Samples(q)[1] = Samples(q)[2]
          /\ Samples(q)[3] # Samples(q)[1]
          /\ Lower(q) # Median(q)

ScenarioDraws == <<
    [alpha |-> 0, beta |-> 1, sigma |-> 2, lp__ |-> 0],
    [alpha |-> 2, beta |-> 1, sigma |-> 2, lp__ |-> 0],
    [alpha |-> 4, beta |-> 1, sigma |-> 2, lp__ |-> 0] >>

InScenario == Sampled /\ heap[stan_results] = FrameOf(ScenarioDraws) /\ {0, 1} \subseteq DoneRows

\* C3 as stated: with coverage 0.5 the scenario's rows are 1/2/3 and 2/3/4.
C3_Original ==
    InScenario =>
        /\ Lower(0) = Num(1 * LevelDenominator)
        /\ Median(0) = Num(2 * LevelDenominator)
        /\ Upper(0) = Num(3 * LevelDenominator)
        /\ Lower(1) = Num(2 * LevelDenominator)
        /\ Median(1) = Num(3 * LevelDenominator)
        /\ Upper(1) = Num(4 * LevelDenominator)

\* C3 amended: there is no coverage input; the levels are fixed at 0.025, 0.5
\* and 0.975 (those of coverage 0.95), so the scenario's rows are 0.1/2/3.9
\* and 1.1/3/4.9 (here in units of 1/40).
C3_FixedLevels ==
    InScenario =>
        /\ Lower(0) = Num(4)
        /\ Median(0) = Num(80)
        /\ Upper(0) = Num(156)
        /\ Lower(1) = Num(44)
        /\ Median(1) = Num(120)
        /\ Upper(1) = Num(196)

C3_Witness == InScenario /\ AfterLoop

EmptyDraws == Sampled /\ NDraws = 0

\* C4 as stated: with an empty Draw Set no quantile is computed and no table
\* is produced.
C4_Original ==
    EmptyDraws => (DoneRows = {} /\ pc \notin {"q500", "q975"} /\ ~AfterLoop)

\* C4 amended: nothing is validated.  With an empty Draw Set the loop and the
\* chart raise nothing, every quantile computed is NaN, and the finished
\* table has a NaN lower, median and upper for every query point.
C4_NoValidation ==
    EmptyDraws =>
        /\ pc = "error" => err.line > 76
        /\ \A q \in DoneRows : Lower(q) = NaN /\ Median(q) = NaN /\ Upper(q) = NaN
        /\ AfterLoop => DoneRows = SeqToSet(SummaryIndex)

C4_Witness == EmptyDraws /\ pc = "end" /\ rendered # << >>

RowFilled(t, r) ==
    /\ ~Cell(t, r, "y_025").isnan
    /\ ~Cell(t, r, "y_500").isnan
    /\ ~Cell(t, r, "y_975").isnan

\* the consumer of the table is the chart: it reads the table at line 69
ConsumerObserves == pc = "errorbar" \/ rendered # << >>

\* C5: whenever the chart can observe the table, it has a row for every query
\* point and the rows are filled all together or not at all; they are all
\* filled when there are draws.
C5_AllOrNothing ==
    ConsumerObserves =>
        /\ summary_stan.index = SummaryIndex
        /\ \A r1, r2 \in SeqToSet(SummaryIndex) :
              RowFilled(summary_stan, r1) <=> RowFilled(summary_stan, r2)
        /\ NDraws > 0 => \A r \in SeqToSet(SummaryIndex) : RowFilled(summary_stan, r)

C5_Witness ==
    /\ rendered # << >>
    /\ NDraws > 0
    /\ \A i \in DOMAIN rendered.y : ~rendered.y[i].isnan

\* C6: once stan_results is bound, no statement changes the object it names:
\* same reference, same columns, same values.
C6_InputsNotMutated ==
    [][Sampled => (stan_results' = stan_results /\ heap'[stan_results] = heap[stan_results])]_vars

C6_Witness ==
    /\ pc = "end"
    /\ NDraws > 0
    /\ pred_df_stan # stan_results
    /\ {"x", "y_0", "y_5"} \subseteq DOMAIN heap[pred_df_stan]
    /\ DOMAIN heap[stan_results] = {"alpha", "beta", "sigma", "lp__"}

\* C7 as stated: when the loop has finished (and there are draws), the table
\* has the six rows in order, exactly the three declared value columns, and a
\* computed value in every cell.
C7_DeclaredColumnsFilled ==
    (pc = "diffs" /\ NDraws > 0) =>
        /\ summary_stan.index = SummaryIndex
        /\ summary_stan.columns = DeclaredColumns
        /\ \A r \in SeqToSet(summary_stan.index) : \A c \in SeqToSet(summary_stan.columns) :
              ~Cell(summary_stan, r, c).isnan

\* C9 as stated: the offsets handed to plt.errorbar are non-negative and are
\* centre - lower and upper - centre, as in the OLS chart.
C9_OffsetsAsOls ==
    rendered # << >> =>
        \A i \in DOMAIN rendered.x :
            LET q == rendered.x[i]
            IN  /\ rendered.yerr[1][i] = OlsLowerDiff(Median(q), Lower(q))
                /\ rendered.yerr[2][i] = OlsUpperDiff(Median(q), Upper(q))
                /\ ~rendered.yerr[1][i].isnan => rendered.yerr[1][i].val >= 0
                /\ ~rendered.yerr[2][i].isnan => rendered.yerr[2][i].val >= 0

SummaryBuilt ==
    /\ it = Len(LoopRange)
    /\ DoneRows = SeqToSet(SummaryIndex)
    /\ HasColumn(summary_stan, "y_025")
    /\ HasColumn(summary_stan, "y_500")
    /\ HasColumn(summary_stan, "y_975")

\* C10: the draft never ends normally.  No statement binds ols_results, and
\* the run ends in an error no later than line 109 (the first use of
\* ols_results), after the Summary Table has been built.
C10_DraftNeverEnds ==
    script = "draft" =>
        /\ pc # "end"
        /\ "ols_results" \notin bound
        /\ pc = "error" => (err.line <= 109 /\ SummaryBuilt)

C10_Witness ==
    /\ script = "draft"
    /\ pc = "error"
    /\ err.line >= 90
    /\ {"ols_model", "ols_fit"} \subseteq bound

\* C8 as stated: however the bodies are ordered or interleaved, every row of
\* the table is that of the sequential loop.
C8_Original ==
    pc = "joined" => summary_stan.cell = SequentialSummary.cell

\* C8 amended: the bodies share the column pred_df_stan["x"].  Run in any
\* order, each body to its end before the next starts, they give every row of
\* the sequential loop.
C8_AnyOrderOfWholeBodies ==
    (pc = "joined" /\ granularity = "any_order") => summary_stan.cell = SequentialSummary.cell

\* the last body to run was not that of the last query point
C8_Witness ==
    /\ pc = "joined"
    /\ granularity = "any_order"
    /\ NDraws > 0
    /\ heap[pred_df_stan]["x"][1] # 5
    /\ \E q \in SeqToSet(LoopRange) : Median(q) # Median(0)

====
